---- MODULE Spec2Model ----
(***************************************************************************)
(* Model of the novel-writer-agent:                                        *)
(*   - AutoSave (src/src/auto_save.py): versioned draft files, backups,    *)
(*     retention, latest-save loading, save history;                       *)
(*   - WritingStatsLogger (src/src/writing_stats_logger.py): the JSON/CSV  *)
(*     session log, its history and daily summary, the streak metrics;     *)
(*   - ConfigManager (src/src/config_manager.py): defaults, YAML file and  *)
(*     environment variables merged by load_config;                        *)
(*   - NovelWriterAgent (src/src/agent.py): story state and page;          *)
(*   - DailyWriter (src/src/daily_writer.py): schedule, writing session,   *)
(*     callbacks and output files.                                         *)
(*                                                                         *)
(* A directory is a function from file names to file records.  A file name *)
(* is a pair <<prefix, id>>: "story_draft_<id>.json", "backup_<id>.json",  *)
(* or a caller-chosen name.  Strings that the code compares as strings     *)
(* (ISO timestamps) are sequences of character codes.                      *)
(***************************************************************************)
EXTENDS Integers, Sequences, FiniteSets, TLC

VARIABLES
    now,        \* wall clock / file-system clock, in ticks
    saves,      \* save_dir: file name -> file record
    backups,    \* backup_dir: file name -> file record
    issued,     \* history: highest version any save_story_draft call assigned
    calls,      \* number of writes to the directories made so far (bounded)
    ticks,      \* number of clock ticks taken so far (bounded)
    jsonLog,    \* content of the JSON log file: sequence of entries
    csvLog,     \* content of the CSV log file: sequence of rows (after the header)
    today,      \* calendar day (ordinal) of datetime.now()
    sessions,   \* history: the arguments of the log_writing_session calls, in call order
    environ,    \* os.environ: variable name -> <<>> (unset) or <<string>>
    config_file,    \* ConfigManager.config_file: <<>> (None) or <<path>>
    yaml_file,  \* the file at that path: <<>> (no such file) or <<parsed YAML mapping>>
    _config,    \* ConfigManager._config: <<>> (None) or <<AppConfig>>
    story_state,        \* NovelWriterAgent.story_state
    context_word_count, \* NovelWriterAgent.context.word_count
    story_state_file,   \* story_state.json: <<>> (no such file) or <<story state>>
    progress_file,      \* novel_progress.json: <<>> (no such file) or <<progress data>>
    writing_time,       \* DailyWriter.writing_time
    is_scheduled,       \* DailyWriter.is_scheduled
    jobs,               \* the job list of the schedule library: times of the daily jobs
    on_write_complete,  \* DailyWriter.on_write_complete: <<>> (None) or <<callback>>
    on_write_error,     \* DailyWriter.on_write_error: <<>> (None) or <<callback>>
    output,             \* DailyWriter.output_dir: file name -> content
    steps,      \* number of agent and writer operations made so far (bounded)
    ret         \* record describing the last operation and what it returned

storeVars == <<now, saves, backups, issued, calls, ticks>>
logVars == <<jsonLog, csvLog, today, sessions>>
configVars == <<environ, config_file, yaml_file, _config>>
agentVars == <<story_state, context_word_count, story_state_file, progress_file>>
writerVars == <<writing_time, is_scheduled, jobs, on_write_complete, on_write_error,
                output>>
appVars == <<configVars, agentVars, writerVars, steps>>
vars == <<now, saves, backups, issued, calls, ticks, jsonLog, csvLog, today, sessions,
          environ, config_file, yaml_file, _config,
          story_state, context_word_count, story_state_file, progress_file,
          writing_time, is_scheduled, jobs, on_write_complete, on_write_error,
          output, steps, ret>>

(***************************************************************************)
(* Bounds of the model.                                                    *)
(***************************************************************************)
TicksPerSec == 2    \* clock ticks distinguished inside one second
MaxCalls    == 2    \* directory writes explored after the initial directory
MaxTicks    == 2    \* clock ticks explored after the initial directory
MaxLog      == 3    \* sessions logged
MaxDay      == 3    \* calendar days 0..MaxDay
MaxHistory  == 2    \* sessions logged before the history is queried
MaxSteps    == 2    \* agent and writer operations explored

(***************************************************************************)
(* Program constants.                                                      *)
(***************************************************************************)
max_versions == 10
max_backups  == 5

(***************************************************************************)
(* Generic helpers: sequences, strings as sequences of character codes.    *)
(***************************************************************************)
Max(S, default) == IF S = {} THEN default ELSE CHOOSE m \in S : \A x \in S : x <= m

\* Python's str comparison: lexicographic by code point, a proper prefix is smaller.
RECURSIVE StrLess(_, _)
StrLess(a, b) ==
    IF b = <<>> THEN FALSE
    ELSE IF a = <<>> THEN TRUE
    ELSE IF Head(a) # Head(b) THEN Head(a) < Head(b)
    ELSE StrLess(Tail(a), Tail(b))

\* A zero-padded two-digit decimal field, as in strftime/isoformat fields.
TwoDigits(n) == <<48 + (n \div 10), 48 + (n % 10)>>

Second(t) == t \div TicksPerSec
Fraction(t) == t % TicksPerSec

\* datetime.isoformat(): the fractional part is printed only when it is not zero.
Isoformat(t) ==
    TwoDigits(Second(t)) \o (IF Fraction(t) = 0 THEN <<>> ELSE <<46, 48 + Fraction(t)>>)

\* datetime.strftime("%Y%m%d_%H%M%S"): second resolution.
Strftime(t) == Second(t)

(***************************************************************************)
(* The file system.  A directory maps each present file name to            *)
(* [content, mtime, ok]; ok = FALSE is a file that open()/json.load()      *)
(* cannot read.  Path.glob lists a directory in an order the file system   *)
(* chooses: the model lists by id, ascending or descending.                *)
(***************************************************************************)
DraftPrefix  == "story_draft_"
BackupPrefix == "backup_"

\* Caller-supplied file names: one that matches story_draft_*.json, one that does not.
CustomNames == {<<DraftPrefix, 99>>, <<"chapter_", 1>>}

\* Story data passed by callers: a 'content' string and a 'pages' list of strings.
Stories == { [content |-> <<97>>, pages |-> <<>>],
             [content |-> <<97, 32, 98>>, pages |-> << <<99>> >>] }

WriteFile(dir, name, content, t) ==
    [n \in DOMAIN dir \cup {name} |->
        IF n = name THEN [content |-> content, mtime |-> t, ok |-> TRUE] ELSE dir[n]]

Unlink(dir, name) == [n \in DOMAIN dir \ {name} |-> dir[n]]

RECURSIVE ListAscending(_)
ListAscending(S) ==
    IF S = {} THEN <<>>
    ELSE LET n == CHOOSE x \in S : \A y \in S : x[2] <= y[2]
         IN <<n>> \o ListAscending(S \ {n})

RECURSIVE Reverse(_)
Reverse(s) == IF s = <<>> THEN <<>> ELSE Reverse(Tail(s)) \o <<Head(s)>>

\* list(dir.glob(prefix + "*.json"))
Glob(dir, prefix, rev) ==
    LET listed == ListAscending({n \in DOMAIN dir : n[1] = prefix})
    IN IF rev THEN Reverse(listed) ELSE listed

\* str.split(): the number of maximal runs of non-blank characters.
RECURSIVE SplitCount(_, _)
SplitCount(str, inWord) ==
    IF str = <<>> THEN 0
    ELSE IF Head(str) = 32 THEN SplitCount(Tail(str), FALSE)
    ELSE (IF inWord THEN 0 ELSE 1) + SplitCount(Tail(str), TRUE)

RECURSIVE SumSplitCounts(_)
SumSplitCounts(strs) ==
    IF strs = <<>> THEN 0
    ELSE SplitCount(Head(strs), FALSE) + SumSplitCounts(Tail(strs))

_calculate_word_count(story_data) ==
    SplitCount(story_data.content, FALSE) + SumSplitCounts(story_data.pages)

\* The versions found by the scan loop of _get_next_version.
RECURSIVE ScanVersions(_, _)
ScanVersions(dir, save_files) ==
    IF save_files = <<>> THEN {}
    ELSE LET f == dir[Head(save_files)]
         IN (IF f.ok THEN {f.content.save_metadata.version} ELSE {})
            \cup ScanVersions(dir, Tail(save_files))

\* Mutant: versions counted per file name instead of across the directory.
NextVersionOfSameName(dir, base_filename, rev) ==
    Max(ScanVersions(dir, SelectSeq(Glob(dir, DraftPrefix, rev),
                                    LAMBDA n : n = base_filename)), 0) + 1

_get_next_version(dir, base_filename, rev) ==
    Max(ScanVersions(dir, Glob(dir, DraftPrefix, rev)), 0) + 1

\* list.sort(key=mtime): stable, ascending.
RECURSIVE InsertByMtime(_, _, _)
InsertByMtime(dir, sorted, x) ==
    IF sorted = <<>> THEN <<x>>
    ELSE IF dir[x].mtime < dir[Head(sorted)].mtime THEN <<x>> \o sorted
    ELSE <<Head(sorted)>> \o InsertByMtime(dir, Tail(sorted), x)

RECURSIVE SortByMtime(_, _, _)
SortByMtime(dir, todo, sorted) ==
    IF todo = <<>> THEN sorted
    ELSE SortByMtime(dir, Tail(todo), InsertByMtime(dir, sorted, Head(todo)))

RECURSIVE UnlinkAll(_, _)
UnlinkAll(dir, names) ==
    IF names = <<>> THEN dir ELSE UnlinkAll(Unlink(dir, Head(names)), Tail(names))

\* Mutant: seq[keep:], the slice taken from the wrong end.
FromIndex(seq, keep) == SubSeq(seq, keep + 1, Len(seq))

\* seq[:-keep] for keep > 0
AllButLast(seq, keep) == SubSeq(seq, 1, Len(seq) - keep)

\* Mutant: retention that keeps one draft too many.
CleanupKeepsOneMore(dir, rev) ==
    LET save_files == Glob(dir, DraftPrefix, rev)
    IN IF Len(save_files) > max_versions + 1
       THEN UnlinkAll(dir, AllButLast(SortByMtime(dir, save_files, <<>>), max_versions + 1))
       ELSE dir

_cleanup_old_versions(dir, rev) ==
    LET save_files == Glob(dir, DraftPrefix, rev)
    IN IF Len(save_files) > max_versions
       THEN UnlinkAll(dir, AllButLast(SortByMtime(dir, save_files, <<>>), max_versions))
       ELSE dir

_cleanup_old_backups(dir, rev) ==
    LET backup_files == Glob(dir, BackupPrefix, rev)
    IN IF Len(backup_files) > max_backups
       THEN UnlinkAll(dir, AllButLast(SortByMtime(dir, backup_files, <<>>), max_backups))
       ELSE dir

\* max(save_files, key=mtime): the first file of the listing with the greatest mtime.
RECURSIVE MaxByMtime(_, _, _)
MaxByMtime(dir, files, best) ==
    IF files = <<>> THEN best
    ELSE MaxByMtime(dir, Tail(files),
                    IF dir[Head(files)].mtime > dir[best].mtime THEN Head(files) ELSE best)

\* Mutant: falls back to the newest draft that can be read.
LoadNewestReadable(dir, rev) ==
    LET save_files == SelectSeq(Glob(dir, DraftPrefix, rev), LAMBDA n : dir[n].ok)
    IN IF save_files = <<>> THEN <<>>
       ELSE <<dir[MaxByMtime(dir, Tail(save_files), Head(save_files))].content>>

\* load_latest_save: <<>> is None, <<data>> is the loaded document.
load_latest_save(dir, rev) ==
    LET save_files == Glob(dir, DraftPrefix, rev)
    IN IF save_files = <<>> THEN <<>>
       ELSE LET latest_save == MaxByMtime(dir, Tail(save_files), Head(save_files))
            IN IF dir[latest_save].ok THEN <<dir[latest_save].content>> ELSE <<>>

\* The loop of get_save_history: one entry per readable file, in listing order.
RECURSIVE HistoryEntries(_, _)
HistoryEntries(dir, save_files) ==
    IF save_files = <<>> THEN <<>>
    ELSE LET f == dir[Head(save_files)]
             metadata == f.content.save_metadata
         IN (IF f.ok
             THEN << [filename |-> Head(save_files), timestamp |-> metadata.timestamp,
                      version |-> metadata.version, word_count |-> metadata.word_count] >>
             ELSE <<>>)
            \o HistoryEntries(dir, Tail(save_files))

\* Mutant: the sort without reverse=True.
RECURSIVE InsertByTimestampAsc(_, _)
InsertByTimestampAsc(sorted, x) ==
    IF sorted = <<>> THEN <<x>>
    ELSE IF StrLess(x.timestamp, Head(sorted).timestamp) THEN <<x>> \o sorted
    ELSE <<Head(sorted)>> \o InsertByTimestampAsc(Tail(sorted), x)

\* history.sort(key=timestamp, reverse=True): stable, descending by string order.
RECURSIVE InsertByTimestampDesc(_, _)
InsertByTimestampDesc(sorted, x) ==
    IF sorted = <<>> THEN <<x>>
    ELSE IF StrLess(Head(sorted).timestamp, x.timestamp) THEN <<x>> \o sorted
    ELSE <<Head(sorted)>> \o InsertByTimestampDesc(Tail(sorted), x)

RECURSIVE SortByTimestampDesc(_, _)
SortByTimestampDesc(todo, sorted) ==
    IF todo = <<>> THEN sorted
    ELSE SortByTimestampDesc(Tail(todo), InsertByTimestampDesc(sorted, Head(todo)))

get_save_history(dir, rev) ==
    SortByTimestampDesc(HistoryEntries(dir, Glob(dir, DraftPrefix, rev)), <<>>)

(***************************************************************************)
(* AutoSave operations as functions of the directory and the clock.        *)
(* A file name argument is <<>> (None) or <<name>>.                        *)
(***************************************************************************)
EmptyDir == [n \in {} |-> 0]

\* save_story_draft: the document written, the directory before and after retention.
save_story_draft(dir, t, story_data, filename, rev) ==
    LET name == IF filename = <<>> THEN <<DraftPrefix, Strftime(t)>> ELSE filename[1]
        version == _get_next_version(dir, name, rev)
        doc == [content |-> story_data.content, pages |-> story_data.pages,
                save_metadata |-> [timestamp |-> Isoformat(t),
                                   version |-> version,
                                   word_count |-> _calculate_word_count(story_data),
                                   auto_saved |-> TRUE]]
        written == WriteFile(dir, name, doc, t)
    IN [path |-> name, version |-> version, doc |-> doc, written |-> written,
        dir |-> _cleanup_old_versions(written, rev)]

\* Mutant: create_backup without the retention call.
CreateBackupWithoutCleanup(dir, t, story_data, rev) ==
    LET backup_filename == <<BackupPrefix, Strftime(t)>>
        doc == [content |-> story_data.content, pages |-> story_data.pages,
                backup_metadata |-> [timestamp |-> Isoformat(t),
                                     word_count |-> _calculate_word_count(story_data),
                                     backup_type |-> "manual"]]
        written == WriteFile(dir, backup_filename, doc, t)
    IN [path |-> backup_filename, doc |-> doc, written |-> written, dir |-> written]

\* create_backup: the same, in the backup directory.
create_backup(dir, t, story_data, rev) ==
    LET backup_filename == <<BackupPrefix, Strftime(t)>>
        doc == [content |-> story_data.content, pages |-> story_data.pages,
                backup_metadata |-> [timestamp |-> Isoformat(t),
                                     word_count |-> _calculate_word_count(story_data),
                                     backup_type |-> "manual"]]
        written == WriteFile(dir, backup_filename, doc, t)
    IN [path |-> backup_filename, doc |-> doc, written |-> written,
        dir |-> _cleanup_old_backups(written, rev)]

FirstStory == CHOOSE s \in Stories : s.pages = <<>>

\* The directory left by n default-named saves made one second apart, from empty.
RECURSIVE DailySaves(_)
DailySaves(n) ==
    IF n = 0 THEN EmptyDir
    ELSE save_story_draft(DailySaves(n - 1), (n - 1) * TicksPerSec, FirstStory, <<>>, FALSE).dir

RECURSIVE DailyBackups(_)
DailyBackups(n) ==
    IF n = 0 THEN EmptyDir
    ELSE create_backup(DailyBackups(n - 1), (n - 1) * TicksPerSec, FirstStory, FALSE).dir

LastTick(n) == IF n = 0 THEN 0 ELSE (n - 1) * TicksPerSec

(***************************************************************************)
(* NovelWriterAgent (src/src/agent.py).  Text is a sequence of character   *)
(* codes.  The model takes an agent as constructed by a subclass that      *)
(* supplies the writing graph; only the name and traits of the main        *)
(* character and the recent events of the story state are kept.            *)
(***************************************************************************)
\* "Margaret"
Margaret == <<77, 97, 114, 103, 97, 114, 101, 116>>

\* ["curious", "resilient", "kind"]
DefaultTraits ==
    <<<<99, 117, 114, 105, 111, 117, 115>>,
      <<114, 101, 115, 105, 108, 105, 101, 110, 116>>,
      <<107, 105, 110, 100>>>>

\* "Moved to a new apartment", "First encounter with magical street vendor"
DefaultEvents ==
    <<<<77, 111, 118, 101, 100, 32, 116, 111, 32, 97, 32, 110, 101, 119, 32, 97, 112, 97, 114,
        116, 109, 101, 110, 116>>,
      <<70, 105, 114, 115, 116, 32, 101, 110, 99, 111, 117, 110, 116, 101, 114, 32, 119, 105,
          116, 104, 32, 109, 97, 103, 105, 99, 97, 108, 32, 115, 116, 114, 101, 101, 116, 32,
          118, 101, 110, 100, 111, 114>>>>

\* The default story state of load_story_state.
DefaultStoryState ==
    [main_character |-> [name |-> Margaret, traits |-> DefaultTraits],
     recent_events |-> DefaultEvents]

\* A story state read from story_state.json: an unnamed character without
\* traits and n recent events "e1", "e2", ...
LoadedStoryState(n) ==
    [main_character |-> [name |-> <<>>, traits |-> <<>>],
     recent_events |-> [i \in 1..n |-> <<101, 48 + i>>]]

\* The events passed to update_story_state: "n1", "n2"
NewEvents == {<<110, 49>>, <<110, 50>>}

\* The number of recent events update_story_state keeps.
RecentEventsKept == 5

\* list[-n:]
LastN(list, n) ==
    IF Len(list) <= n THEN list ELSE SubSeq(list, Len(list) - n + 1, Len(list))

\* Mutant: the list is trimmed to the events kept before the new one is added.
UpdateTrimsBeforeAppend(state, new_event) ==
    [state EXCEPT !.recent_events =
        Append(IF Len(state.recent_events) > RecentEventsKept
               THEN LastN(state.recent_events, RecentEventsKept)
               ELSE state.recent_events,
               new_event)]

\* update_story_state: append, then keep the last five.
update_story_state(state, new_event) ==
    LET appended == Append(state.recent_events, new_event)
    IN [state EXCEPT !.recent_events =
            IF Len(appended) > RecentEventsKept
            THEN LastN(appended, RecentEventsKept) ELSE appended]

\* ", ".join(strs)
RECURSIVE JoinTraits(_)
JoinTraits(strs) ==
    IF strs = <<>> THEN <<>>
    ELSE IF Len(strs) = 1 THEN Head(strs)
    ELSE Head(strs) \o <<44, 32>> \o JoinTraits(Tail(strs))

\* The three pieces of fixed text of the placeholder page, between the
\* character name, the traits and the second occurrence of the name:
\* " stepped through the morning mist, her "
PageText1 ==
    <<32, 115, 116, 101, 112, 112, 101, 100, 32, 116, 104, 114, 111, 117, 103, 104, 32, 116,
      104, 101, 32, 109, 111, 114, 110, 105, 110, 103, 32, 109, 105, 115, 116, 44, 32, 104,
      101, 114, 32>>

\* " nature guiding her forward ... As she walked, "
PageText2 ==
    <<32, 110, 97, 116, 117, 114, 101, 32, 103, 117, 105, 100, 105, 110, 103, 32, 104, 101,
      114, 32, 102, 111, 114, 119, 97, 114, 100, 32, 100, 101, 115, 112, 105, 116, 101, 32,
      116, 104, 101, 32, 117, 110, 99, 101, 114, 116, 97, 105, 110, 116, 121, 32, 97, 104, 101,
      97, 100, 46, 32, 84, 104, 101, 32, 114, 101, 99, 101, 110, 116, 32, 101, 118, 101, 110,
      116, 115, 8212, 104, 101, 114, 32, 109, 111, 118, 101, 32, 116, 111, 32, 116, 104, 101,
      32, 97, 112, 97, 114, 116, 109, 101, 110, 116, 32, 97, 110, 100, 32, 116, 104, 101, 32,
      101, 110, 99, 111, 117, 110, 116, 101, 114, 32, 119, 105, 116, 104, 32, 116, 104, 101,
      32, 109, 97, 103, 105, 99, 97, 108, 32, 118, 101, 110, 100, 111, 114, 8212, 104, 97, 100,
      32, 97, 119, 97, 107, 101, 110, 101, 100, 32, 115, 111, 109, 101, 116, 104, 105, 110,
      103, 32, 119, 105, 116, 104, 105, 110, 32, 104, 101, 114, 32, 116, 104, 97, 116, 32, 115,
      104, 101, 32, 119, 97, 115, 32, 111, 110, 108, 121, 32, 98, 101, 103, 105, 110, 110, 105,
      110, 103, 32, 116, 111, 32, 117, 110, 100, 101, 114, 115, 116, 97, 110, 100, 46, 10, 10,
      84, 104, 101, 32, 99, 105, 116, 121, 32, 97, 114, 111, 117, 110, 100, 32, 104, 101, 114,
      32, 104, 117, 109, 109, 101, 100, 32, 119, 105, 116, 104, 32, 97, 110, 32, 101, 110, 101,
      114, 103, 121, 32, 116, 104, 97, 116, 32, 109, 97, 116, 99, 104, 101, 100, 32, 104, 101,
      114, 32, 111, 119, 110, 32, 114, 101, 115, 116, 108, 101, 115, 115, 32, 115, 112, 105,
      114, 105, 116, 46, 32, 69, 97, 99, 104, 32, 115, 116, 101, 112, 32, 102, 101, 108, 116,
      32, 112, 117, 114, 112, 111, 115, 101, 102, 117, 108, 32, 110, 111, 119, 44, 32, 97, 115,
      32, 105, 102, 32, 116, 104, 101, 32, 108, 111, 110, 101, 108, 105, 110, 101, 115, 115,
      32, 116, 104, 97, 116, 32, 104, 97, 100, 32, 100, 114, 105, 118, 101, 110, 32, 104, 101,
      114, 32, 104, 101, 114, 101, 32, 119, 97, 115, 32, 116, 114, 97, 110, 115, 102, 111, 114,
      109, 105, 110, 103, 32, 105, 110, 116, 111, 32, 115, 111, 109, 101, 116, 104, 105, 110,
      103, 32, 109, 111, 114, 101, 32, 112, 111, 119, 101, 114, 102, 117, 108, 8212, 97, 32,
      99, 111, 110, 110, 101, 99, 116, 105, 111, 110, 32, 116, 111, 32, 116, 104, 101, 32, 109,
      97, 103, 105, 99, 32, 116, 104, 97, 116, 32, 112, 117, 108, 115, 101, 100, 32, 116, 104,
      114, 111, 117, 103, 104, 32, 116, 104, 101, 32, 117, 114, 98, 97, 110, 32, 108, 97, 110,
      100, 115, 99, 97, 112, 101, 32, 108, 105, 107, 101, 32, 97, 32, 104, 105, 100, 100, 101,
      110, 32, 104, 101, 97, 114, 116, 98, 101, 97, 116, 46, 10, 10, 65, 115, 32, 115, 104,
      101, 32, 119, 97, 108, 107, 101, 100, 44, 32>>

\* " reflected on how much had changed ... had always defined her."
PageText3 ==
    <<32, 114, 101, 102, 108, 101, 99, 116, 101, 100, 32, 111, 110, 32, 104, 111, 119, 32, 109,
      117, 99, 104, 32, 104, 97, 100, 32, 99, 104, 97, 110, 103, 101, 100, 32, 115, 105, 110,
      99, 101, 32, 109, 111, 118, 105, 110, 103, 32, 104, 101, 114, 101, 46, 32, 84, 104, 101,
      32, 109, 97, 103, 105, 99, 97, 108, 32, 115, 116, 114, 101, 101, 116, 32, 118, 101, 110,
      100, 111, 114, 39, 115, 32, 107, 110, 111, 119, 105, 110, 103, 32, 115, 109, 105, 108,
      101, 32, 104, 97, 117, 110, 116, 101, 100, 32, 104, 101, 114, 32, 116, 104, 111, 117,
      103, 104, 116, 115, 44, 32, 97, 32, 114, 101, 109, 105, 110, 100, 101, 114, 32, 116, 104,
      97, 116, 32, 104, 101, 114, 32, 106, 111, 117, 114, 110, 101, 121, 32, 116, 111, 119, 97,
      114, 100, 32, 100, 105, 115, 99, 111, 118, 101, 114, 105, 110, 103, 32, 116, 104, 101,
      32, 99, 105, 116, 121, 39, 115, 32, 109, 97, 103, 105, 99, 32, 119, 97, 115, 32, 106,
      117, 115, 116, 32, 98, 101, 103, 105, 110, 110, 105, 110, 103, 46, 32, 87, 104, 97, 116,
      101, 118, 101, 114, 32, 99, 97, 109, 101, 32, 110, 101, 120, 116, 44, 32, 115, 104, 101,
      32, 102, 101, 108, 116, 32, 114, 101, 97, 100, 121, 32, 116, 111, 32, 101, 109, 98, 114,
      97, 99, 101, 32, 105, 116, 32, 119, 105, 116, 104, 32, 116, 104, 101, 32, 99, 117, 114,
      105, 111, 115, 105, 116, 121, 32, 97, 110, 100, 32, 114, 101, 115, 105, 108, 105, 101,
      110, 99, 101, 32, 116, 104, 97, 116, 32, 104, 97, 100, 32, 97, 108, 119, 97, 121, 115,
      32, 100, 101, 102, 105, 110, 101, 100, 32, 104, 101, 114, 46>>

\* Mutant: the page is the character's name alone.
GeneratePageOfNameOnly(state) == state.main_character.name

\* _generate_page_with_memory: the placeholder page built from the story memory.
_generate_page_with_memory(state) ==
    LET character_name == state.main_character.name
        character_traits == JoinTraits(state.main_character.traits)
    IN character_name \o PageText1 \o character_traits \o PageText2
           \o character_name \o PageText3

\* str.split() separators
IsSpace(c) == c \in {9, 10, 11, 12, 13, 32}

\* len(text.split()): the number of positions where a word starts
WordsIn(text) ==
    Cardinality({i \in 1..Len(text) :
                    ~IsSpace(text[i]) /\ (i = 1 \/ IsSpace(text[i - 1]))})

\* " experiences a significant moment in her magical journey"
EventText ==
    <<32, 101, 120, 112, 101, 114, 105, 101, 110, 99, 101, 115, 32, 97, 32, 115, 105, 103, 110,
        105, 102, 105, 99, 97, 110, 116, 32, 109, 111, 109, 101, 110, 116, 32, 105, 110, 32,
        104, 101, 114, 32, 109, 97, 103, 105, 99, 97, 108, 32, 106, 111, 117, 114, 110, 101,
        121>>

\* write_daily_page without its file write: the result dictionary, the story
\* state and the context word count it leaves.
write_daily_page(state, total, date) ==
    LET page_content == _generate_page_with_memory(state)
        page_words == WordsIn(page_content)
        character_name == state.main_character.name
        new_event == character_name \o EventText
        updated == update_story_state(state, new_event)
    IN [result |-> [content |-> page_content,
                    word_count |-> page_words,
                    chapter |-> 1,
                    date |-> date,
                    story_continuity |->
                        [character_name |-> character_name,
                         character_traits |-> updated.main_character.traits,
                         recent_events |-> updated.recent_events],
                    total_words |-> total + page_words],
        story_state |-> updated,
        context_word_count |-> total + page_words]

\* get_progress_stats / save_progress: the progress data written.
ProgressData(total) ==
    [total_words |-> total, pages_written |-> total \div 300]

(***************************************************************************)
(* DailyWriter (src/src/daily_writer.py).  A file of the output directory  *)
(* is named <<day, kind>>: "<date>_page.txt" or "<date>_metadata.json".    *)
(* A page file holds the UTF-8 bytes of the page.  An exception is a       *)
(* record [type, at]: its class and the step that raised it.               *)
(***************************************************************************)
\* The HH:MM strings passed to schedule_daily_writing.
Times == {"09:00", "18:30"}

\* Mutant: the new job is added to the jobs already scheduled.
ScheduleWithoutClear(scheduled, time_str) ==
    [writing_time |-> time_str,
     jobs |-> Append(scheduled, time_str),
     is_scheduled |-> TRUE]

\* schedule_daily_writing: schedule.clear(), then one daily job at time_str.
schedule_daily_writing(scheduled, time_str) ==
    [writing_time |-> time_str,
     jobs |-> Append(<<>>, time_str),
     is_scheduled |-> TRUE]

\* str.encode('utf-8') of one character
Utf8Char(c) ==
    IF c < 128 THEN <<c>>
    ELSE IF c < 2048 THEN <<192 + (c \div 64), 128 + (c % 64)>>
    ELSE <<224 + (c \div 4096), 128 + ((c \div 64) % 64), 128 + (c % 64)>>

\* f.write(text) with encoding='utf-8': the bytes of the file
RECURSIVE Utf8Encode(_)
Utf8Encode(text) ==
    IF text = <<>> THEN <<>>
    ELSE IF Len(text) = 1 THEN Utf8Char(text[1])
    ELSE LET half == Len(text) \div 2
         IN Utf8Encode(SubSeq(text, 1, half))
                \o Utf8Encode(SubSeq(text, half + 1, Len(text)))

\* Mutant: progress is saved before the output files are written.
ProgressSavedFirst ==
    <<"write_daily_page", "save_progress", "page_file", "metadata_file",
      "on_write_complete">>

\* The steps of the try block of _execute_daily_writing, in execution order.
SessionSteps ==
    <<"write_daily_page", "page_file", "metadata_file", "save_progress",
      "on_write_complete">>

\* The exception classes a step raises: one that `except Exception` catches
\* and one that it does not.
ExceptionTypes == {"Exception", "KeyboardInterrupt"}

\* What one step does to the agent and the files when it completes.
\* st: [story_state, context_word_count, story_state_file, progress_file,
\*      output, result, complete_calls, performed]
StepEffect(step, st, date) ==
    IF step = "write_daily_page"
    THEN LET r == write_daily_page(st.story_state, st.context_word_count, date)
         IN [st EXCEPT !.story_state = r.story_state,
                       !.context_word_count = r.context_word_count,
                       !.story_state_file = <<r.story_state>>,
                       !.result = <<r.result>>]
    ELSE IF step = "page_file"
    THEN [st EXCEPT !.output =
             [n \in DOMAIN st.output \cup {<<date, "page">>} |->
                 IF n = <<date, "page">> THEN [bytes |-> Utf8Encode(st.result[1].content)]
                 ELSE st.output[n]]]
    ELSE IF step = "metadata_file"
    THEN [st EXCEPT !.output =
             [n \in DOMAIN st.output \cup {<<date, "metadata">>} |->
                 IF n = <<date, "metadata">> THEN [json |-> st.result[1]]
                 ELSE st.output[n]]]
    ELSE IF step = "save_progress"
    THEN [st EXCEPT !.progress_file = <<ProgressData(st.context_word_count)>>]
    ELSE [st EXCEPT !.complete_calls = Append(st.complete_calls, st.result[1])]

\* What a step leaves behind when it raises: write_daily_page fails in
\* save_story_state, after the story state and the word count were updated in
\* memory; a file step fails in open(), a callback raises on its own.
StepFailure(step, st, date) ==
    IF step = "write_daily_page"
    THEN LET r == write_daily_page(st.story_state, st.context_word_count, date)
         IN [st EXCEPT !.story_state = r.story_state,
                       !.context_word_count = r.context_word_count]
    ELSE st

\* The try block: the steps run in order until one raises; the completion
\* callback is a step only when it is set.
RECURSIVE RunSteps(_, _, _, _, _)
RunSteps(order, st, date, fail, complete_set) ==
    IF order = <<>> THEN [st EXCEPT !.raised = <<>>]
    ELSE IF Head(order) = "on_write_complete" /\ ~complete_set
    THEN RunSteps(Tail(order), st, date, fail, complete_set)
    ELSE IF fail # <<>> /\ fail[1].at = Head(order)
    THEN [StepFailure(Head(order), st, date) EXCEPT !.raised = fail]
    ELSE RunSteps(Tail(order),
                  [StepEffect(Head(order), st, date) EXCEPT
                      !.performed = Append(st.performed, Head(order))],
                  date, fail, complete_set)

\* Mutant: the except clause reports the error and returns normally.
ExceptClauseSwallows(raised, error_set, callback_raises) ==
    IF raised = <<>> \/ raised[1].type # "Exception"
    THEN [error_calls |-> <<>>, raised |-> raised]
    ELSE [error_calls |-> IF error_set THEN raised ELSE <<>>, raised |-> <<>>]

\* except Exception as e: on_write_error(e) when set, then raise.  An
\* exception raised by the callback replaces the one being handled.
ExceptClause(raised, error_set, callback_raises) ==
    IF raised = <<>> \/ raised[1].type # "Exception"
    THEN [error_calls |-> <<>>, raised |-> raised]
    ELSE IF error_set
    THEN [error_calls |-> raised,
          raised |-> IF callback_raises
                     THEN << [type |-> "Exception", at |-> "on_write_error"] >>
                     ELSE raised]
    ELSE [error_calls |-> <<>>, raised |-> raised]

\* _execute_daily_writing: the state it leaves, the steps performed, the
\* callbacks called, the result returned and the exception raised.
_execute_daily_writing(st, date, fail, complete_set, error_set, callback_raises) ==
    LET tried == RunSteps(SessionSteps, st, date, fail, complete_set)
        handled == ExceptClause(tried.raised, error_set, callback_raises)
    IN [tried EXCEPT !.raised = handled.raised,
                     !.error_calls = handled.error_calls,
                     !.returned = IF tried.raised = <<>> THEN tried.result ELSE <<>>]

(***************************************************************************)
(* ConfigManager (src/src/config_manager.py).  Setting values are strings  *)
(* and booleans; an absent dictionary key, an unset environment variable   *)
(* and None are <<>>, a present value is <<value>>.  Three settings stand  *)
(* for the three kinds load_config handles: novel.title (a nested string), *)
(* environment (a validated string) and debug (a parsed boolean).          *)
(***************************************************************************)
env_prefix == "NOVEL_WRITER_"

NOVEL_TITLE == env_prefix \o "NOVEL_TITLE"
ENVIRONMENT == env_prefix \o "ENVIRONMENT"
DEBUG       == env_prefix \o "DEBUG"

EnvNames == {NOVEL_TITLE, ENVIRONMENT, DEBUG}

\* The strings a variable is set to: empty, valid and invalid ones.
EnvStrings(name) ==
    IF name = NOVEL_TITLE THEN {"", "Env Novel"}
    ELSE IF name = ENVIRONMENT THEN {"", "production", "staging"}
    ELSE {"", "TRUE", "no"}

EnvValues(name) == {<<>>} \cup {<<str>> : str \in EnvStrings(name)}

\* The mappings a YAML file holds.
YamlDocs ==
    [title : {<<>>, <<"Yaml Novel">>},
     environment : {<<>>, <<"testing">>},
     debug : {<<>>, <<TRUE>>}]

\* Field defaults of NovelConfig and AppConfig.
DefaultTitle == "Untitled Novel"
DefaultEnvironment == "development"
DefaultDebug == FALSE

valid_envs == {"development", "production", "testing"}

\* if os.getenv(name): neither None nor the empty string
Truthy(value) == value # <<>> /\ value[1] # ""

\* str.lower() on the strings of EnvStrings(DEBUG)
Lower(str) == IF str = "TRUE" THEN "true" ELSE str

\* config_data = {}
EmptyConfigData == [title |-> <<>>, environment |-> <<>>, debug |-> <<>>]

\* config_data.update(yaml_data)
DictUpdate(config_data, yaml_data) ==
    [k \in DOMAIN config_data |->
        IF yaml_data[k] # <<>> THEN yaml_data[k] ELSE config_data[k]]

\* Mutant: an environment variable fills a setting only where the file gave none.
LoadFromEnvAsFallback(config_data, env) ==
    [title |-> IF Truthy(env[NOVEL_TITLE]) /\ config_data.title = <<>>
               THEN env[NOVEL_TITLE] ELSE config_data.title,
     environment |-> IF Truthy(env[ENVIRONMENT]) /\ config_data.environment = <<>>
                     THEN env[ENVIRONMENT] ELSE config_data.environment,
     debug |-> IF Truthy(env[DEBUG]) /\ config_data.debug = <<>>
               THEN <<Lower(env[DEBUG][1]) \in {"true", "1", "yes"}>>
               ELSE config_data.debug]

\* _load_from_env: each variable that is truthy overrides config_data.
_load_from_env(config_data, env) ==
    [title |-> IF Truthy(env[NOVEL_TITLE]) THEN env[NOVEL_TITLE] ELSE config_data.title,
     environment |-> IF Truthy(env[ENVIRONMENT])
                     THEN env[ENVIRONMENT] ELSE config_data.environment,
     debug |-> IF Truthy(env[DEBUG])
               THEN <<Lower(env[DEBUG][1]) \in {"true", "1", "yes"}>>
               ELSE config_data.debug]

\* AppConfig(**config_data): defaults for absent keys, then the environment
\* validator; ok is FALSE when validation raises.
AppConfig(config_data) ==
    LET title == IF config_data.title = <<>> THEN DefaultTitle ELSE config_data.title[1]
        environment == IF config_data.environment = <<>> THEN DefaultEnvironment
                       ELSE config_data.environment[1]
        debug == IF config_data.debug = <<>> THEN DefaultDebug ELSE config_data.debug[1]
    IN [ok |-> environment \in valid_envs,
        config |-> [title |-> title, environment |-> environment, debug |-> debug]]

\* load_config: the value returned (<<>> when it raises), the exception raised
\* ("" when none), the new _config, and whether the sources were read.
load_config(cached, file, disk, env) ==
    IF cached # <<>>
    THEN [result |-> cached, raised |-> "", _config |-> cached, read |-> FALSE]
    ELSE LET from_yaml == IF file # <<>> /\ disk # <<>>
                          THEN DictUpdate(EmptyConfigData, disk[1])
                          ELSE EmptyConfigData
             config_data == _load_from_env(from_yaml, env)
             validated == AppConfig(config_data)
         IN IF validated.ok
            THEN [result |-> <<validated.config>>, raised |-> "",
                  _config |-> <<validated.config>>, read |-> TRUE]
            ELSE [result |-> <<>>, raised |-> "ValidationError",
                  _config |-> <<>>, read |-> TRUE]

\* ConfigManager(): no file, nothing loaded; the environment has no setting.
InitConfig ==
    /\ environ = [name \in EnvNames |-> <<>>]
    /\ config_file = <<>>
    /\ yaml_file = <<>>
    /\ _config = <<>>

\* The agent after construction, with no story_state.json on disk.
InitAgent ==
    /\ story_state = DefaultStoryState
    /\ context_word_count = 0
    /\ story_state_file = <<>>
    /\ progress_file = <<>>

InitWriter ==
    /\ writing_time = "09:00"
    /\ is_scheduled = FALSE
    /\ jobs = <<>>
    /\ on_write_complete = <<>>
    /\ on_write_error = <<>>
    /\ output = EmptyDir

InitApp == InitConfig /\ InitAgent /\ InitWriter /\ steps = 0

(***************************************************************************)
(* Initial states.                                                         *)
(***************************************************************************)
InitLogger ==
    /\ jsonLog = <<>>
    /\ csvLog = <<>>
    /\ today = 0
    /\ sessions = <<>>

\* The save directory as earlier runs left it: empty, one below the retention
\* limit, or at the limit.
InitialCounts == {0, max_versions - 1, max_versions}

Init ==
    /\ \E n \in InitialCounts :
          /\ saves = DailySaves(n)
          /\ now = LastTick(n)
          /\ issued = n
    /\ backups = EmptyDir
    /\ calls = 0
    /\ ticks = 0
    /\ ret = [op |-> "init"]
    /\ InitLogger
    /\ InitApp

(***************************************************************************)
(* Actions of the draft store.                                             *)
(***************************************************************************)
Tick ==
    /\ ticks < MaxTicks
    /\ now' = now + 1
    /\ ticks' = ticks + 1
    /\ UNCHANGED <<saves, backups, issued, calls, logVars, appVars, ret>>

SaveStoryDraft ==
    /\ calls < MaxCalls
    /\ \E story_data \in Stories, rev \in BOOLEAN,
          filename \in {<<>>} \cup {<<c>> : c \in CustomNames} :
          LET r == save_story_draft(saves, now, story_data, filename, rev)
          IN /\ saves' = r.dir
             /\ issued' = IF r.version > issued THEN r.version ELSE issued
             /\ ret' = [op |-> "save", path |-> r.path, version |-> r.version,
                        earlier |-> issued, doc |-> r.doc,
                        before |-> saves, written |-> r.written,
                        deleted |-> DOMAIN r.written \ DOMAIN r.dir]
    /\ calls' = calls + 1
    /\ UNCHANGED <<now, backups, ticks, logVars, appVars>>

LoadLatestSave ==
    /\ \E rev \in BOOLEAN :
          ret' = [op |-> "load", data |-> load_latest_save(saves, rev)]
    /\ UNCHANGED <<storeVars, logVars, appVars>>

GetSaveHistory ==
    /\ \E rev \in BOOLEAN :
          ret' = [op |-> "history", history |-> get_save_history(saves, rev)]
    /\ UNCHANGED <<storeVars, logVars, appVars>>

CreateBackup ==
    /\ calls < MaxCalls
    /\ \E story_data \in Stories, rev \in BOOLEAN :
          LET r == create_backup(backups, now, story_data, rev)
          IN /\ backups' = r.dir
             /\ ret' = [op |-> "backup", path |-> r.path, doc |-> r.doc,
                        before |-> backups, written |-> r.written,
                        deleted |-> DOMAIN r.written \ DOMAIN r.dir]
    /\ calls' = calls + 1
    /\ UNCHANGED <<now, saves, issued, ticks, logVars, appVars>>

\* Outside the program: a draft file is damaged so that it can no longer be read.
Damaged(dir) == {n \in DOMAIN dir : ~dir[n].ok}

DamageFile ==
    /\ calls < MaxCalls
    /\ \E name \in DOMAIN saves \ Damaged(saves) :
          saves' = [saves EXCEPT ![name].ok = FALSE]
    /\ calls' = calls + 1
    /\ ret' = [op |-> "damage"]
    /\ UNCHANGED <<now, backups, issued, ticks, logVars, appVars>>

Next == Tick \/ SaveStoryDraft \/ LoadLatestSave \/ GetSaveHistory

\* The draft store on its own, every file readable.
Spec == Init /\ [][Next]_vars

\* The backup store.
InitBackup ==
    /\ \E n \in {0, max_backups - 1, max_backups} :
          /\ backups = DailyBackups(n)
          /\ now = LastTick(n)
    /\ saves = EmptyDir
    /\ issued = 0
    /\ calls = 0
    /\ ticks = 0
    /\ ret = [op |-> "init"]
    /\ InitLogger
    /\ InitApp

NextBackup == Tick \/ CreateBackup

BackupSpec == InitBackup /\ [][NextBackup]_vars

\* The draft store with files damaged from outside.
InitFault ==
    /\ \E n \in {0, 2} :
          /\ saves = DailySaves(n)
          /\ now = LastTick(n)
          /\ issued = n
    /\ backups = EmptyDir
    /\ calls = 0
    /\ ticks = 0
    /\ ret = [op |-> "init"]
    /\ InitLogger
    /\ InitApp

NextFault == Tick \/ SaveStoryDraft \/ LoadLatestSave \/ GetSaveHistory \/ DamageFile

FaultSpec == InitFault /\ [][NextFault]_vars

(***************************************************************************)
(* WritingStatsLogger.  A datetime is [day, tod]: the calendar day as an    *)
(* ordinal and the time of day; its ISO string is <<day, tod>> (the date   *)
(* part and the time part).  None is <<>>, a given argument is <<value>>.  *)
(***************************************************************************)
WordCounts == {1, 2}

DateTimeIsoformat(dt) == <<dt.day, dt.tod>>

\* datetime.fromisoformat(s).date()
DateOf(str) == str[1]

\* '; '.join(strs), strings being sequences of character codes
RECURSIVE JoinSources(_)
JoinSources(strs) ==
    IF strs = <<>> THEN <<>>
    ELSE IF Len(strs) = 1 THEN Head(strs)
    ELSE Head(strs) \o <<59, 32>> \o JoinSources(Tail(strs))

\* The log_entry dictionary built by log_writing_session.
LogEntry(word_count, page_summary, date, nowdt) ==
    LET session_date == IF date = <<>> THEN nowdt ELSE date[1]
    IN [date |-> DateTimeIsoformat(session_date),
        word_count |-> word_count,
        page_summary |-> page_summary,
        total_words |-> 0,
        chapter |-> 1,
        inspiration_sources |-> <<>>,
        writing_duration_minutes |-> <<>>,
        metadata |-> <<>>]

\* Mutant: the log file rewritten with the new entry alone.
OverwriteJsonLog(data, log_entry) == <<log_entry>>

\* _append_to_json_log: read the list, append, write it back.
_append_to_json_log(data, log_entry) == Append(data, log_entry)

\* _append_to_csv_log: one more row at the end of the file.
_append_to_csv_log(rows, log_entry) ==
    Append(rows, <<log_entry.date, log_entry.word_count, log_entry.page_summary,
                   log_entry.total_words, log_entry.chapter,
                   JoinSources(log_entry.inspiration_sources),
                   log_entry.writing_duration_minutes>>)

\* get_writing_history(0): every logged entry.
get_writing_history_all(data) == data

\* The set of calendar days with an entry.
RECURSIVE WritingDays(_)
WritingDays(history) ==
    IF history = <<>> THEN {}
    ELSE {DateOf(Head(history).date)} \cup WritingDays(Tail(history))

RECURSIVE SortedAscending(_)
SortedAscending(S) ==
    IF S = {} THEN <<>>
    ELSE LET m == CHOOSE x \in S : \A y \in S : x <= y
         IN <<m>> \o SortedAscending(S \ {m})

\* The for loop of _calculate_current_streak over the days, newest first.
RECURSIVE CurrentStreakLoop(_, _, _)
CurrentStreakLoop(writing_days, streak, current_date) ==
    IF writing_days = <<>> THEN streak
    ELSE LET day == Head(writing_days)
         IN IF day = current_date \/ current_date - day = streak
            THEN CurrentStreakLoop(Tail(writing_days), streak + 1, day)
            ELSE streak

_calculate_current_streak(history, current_date) ==
    IF history = <<>> THEN 0
    ELSE CurrentStreakLoop(Reverse(SortedAscending(WritingDays(history))), 0, current_date)

\* Mutant: any later day continues the streak.
RECURSIVE LongestStreakLoopAnyGap(_, _, _, _)
LongestStreakLoopAnyGap(writing_days, i, longest_streak, current_streak) ==
    IF i > Len(writing_days) THEN longest_streak
    ELSE IF writing_days[i] - writing_days[i - 1] >= 1
         THEN LongestStreakLoopAnyGap(writing_days, i + 1,
                                      IF current_streak + 1 > longest_streak
                                      THEN current_streak + 1 ELSE longest_streak,
                                      current_streak + 1)
         ELSE LongestStreakLoopAnyGap(writing_days, i + 1, longest_streak, 1)

\* The for loop of _calculate_longest_streak, i = 2..Len in 1-based indexing.
RECURSIVE LongestStreakLoop(_, _, _, _)
LongestStreakLoop(writing_days, i, longest_streak, current_streak) ==
    IF i > Len(writing_days) THEN longest_streak
    ELSE IF writing_days[i] - writing_days[i - 1] = 1
         THEN LongestStreakLoop(writing_days, i + 1,
                                IF current_streak + 1 > longest_streak
                                THEN current_streak + 1 ELSE longest_streak,
                                current_streak + 1)
         ELSE LongestStreakLoop(writing_days, i + 1, longest_streak, 1)

_calculate_longest_streak(history) ==
    IF history = <<>> THEN 0
    ELSE LET writing_days == SortedAscending(WritingDays(history))
         IN IF writing_days = <<>> THEN 0
            ELSE LongestStreakLoop(writing_days, 2, 1, 1)

RECURSIVE SumWordCounts(_)
SumWordCounts(history) ==
    IF history = <<>> THEN 0 ELSE Head(history).word_count + SumWordCounts(Tail(history))

\* max(history, key=word_count): the first entry with the greatest word count.
RECURSIVE MaxByWordCount(_, _)
MaxByWordCount(history, best) ==
    IF history = <<>> THEN best
    ELSE MaxByWordCount(Tail(history),
                        IF Head(history).word_count > best.word_count
                        THEN Head(history) ELSE best)

get_writing_statistics(data, current_date) ==
    LET history == get_writing_history_all(data)
    IN IF history = <<>>
       THEN [total_sessions |-> 0, total_words_written |-> 0,
             average_words_per_session |-> 0, total_writing_days |-> 0,
             current_streak |-> 0, longest_streak |-> 0,
             most_productive_day |-> <<>>, average_session_duration |-> 0]
       ELSE LET most_productive == MaxByWordCount(Tail(history), Head(history))
            IN [total_sessions |-> Len(history),
                total_words_written |-> SumWordCounts(history),
                average_words_per_session |-> SumWordCounts(history) \div Len(history),
                total_writing_days |-> Cardinality(WritingDays(history)),
                current_streak |-> _calculate_current_streak(history, current_date),
                longest_streak |-> _calculate_longest_streak(history),
                most_productive_day |-> << [date |-> most_productive.date,
                                           word_count |-> most_productive.word_count] >>,
                average_session_duration |-> 0]

\* The day of the month of a calendar day: the modelled days lie in one month and
\* day 0 is its first.
DayOfMonth(day) == day + 1

\* list filter, in list order
RECURSIVE FilterOnOrAfter(_, _)
FilterOnOrAfter(data, cutoff_day) ==
    IF data = <<>> THEN <<>>
    ELSE IF DateOf(Head(data).date) >= cutoff_day
         THEN <<Head(data)>> \o FilterOnOrAfter(Tail(data), cutoff_day)
         ELSE FilterOnOrAfter(Tail(data), cutoff_day)

\* get_writing_history(days): the cutoff is today's midnight with its day of the
\* month replaced by day - days; replace() raises ValueError when that is not a
\* day of the month, and the except clause returns the empty list.
get_writing_history(data, days, current_date) ==
    IF days > 0
    THEN IF DayOfMonth(current_date) - days < 1
         THEN <<>>
         ELSE FilterOnOrAfter(data, current_date - days)
    ELSE data

\* list comprehension of get_daily_summary: the entries of one calendar date
RECURSIVE EntriesOn(_, _)
EntriesOn(history, target_date) ==
    IF history = <<>> THEN <<>>
    ELSE IF DateOf(Head(history).date) = target_date
         THEN <<Head(history)>> \o EntriesOn(Tail(history), target_date)
         ELSE EntriesOn(Tail(history), target_date)

\* sum(entry['word_count'] for entry in daily_entries)
RECURSIVE TotalWordCount(_)
TotalWordCount(entries) ==
    IF entries = <<>> THEN 0
    ELSE Head(entries).word_count + TotalWordCount(Tail(entries))

\* ' | '.join(summaries)
RECURSIVE JoinSummaries(_)
JoinSummaries(entries) ==
    IF entries = <<>> THEN ""
    ELSE IF Len(entries) = 1 THEN Head(entries).page_summary
    ELSE Head(entries).page_summary \o " | " \o JoinSummaries(Tail(entries))

\* Mutant: the summary totals every logged entry.
DailySummaryOfWholeLog(data, date, current_date) ==
    LET target_date == IF date = <<>> THEN current_date ELSE date[1]
        history == get_writing_history(data, 0, current_date)
        daily_entries == EntriesOn(history, target_date)
    IN IF daily_entries = <<>> THEN <<>>
       ELSE << [date |-> target_date,
                total_word_count |-> TotalWordCount(history),
                sessions |-> Len(history),
                combined_summary |-> JoinSummaries(daily_entries),
                entries |-> daily_entries] >>

\* get_daily_summary(date): date is None (today) or a calendar date.
get_daily_summary(data, date, current_date) ==
    LET target_date == IF date = <<>> THEN current_date ELSE date[1]
        history == get_writing_history(data, 0, current_date)
        daily_entries == EntriesOn(history, target_date)
    IN IF daily_entries = <<>> THEN <<>>
       ELSE << [date |-> target_date,
                total_word_count |-> TotalWordCount(daily_entries),
                sessions |-> Len(daily_entries),
                combined_summary |-> JoinSummaries(daily_entries),
                entries |-> daily_entries] >>

(***************************************************************************)
(* Actions of the statistics logger.                                       *)
(***************************************************************************)
NextDay ==
    /\ today < MaxDay
    /\ today' = today + 1
    /\ UNCHANGED <<storeVars, appVars, jsonLog, csvLog, sessions, ret>>

\* log_writing_session(word_count, page_summary, date=...): date is None (now) or
\* midnight of a day up to today.
LogWritingSession ==
    /\ Len(sessions) < MaxLog
    /\ \E word_count \in WordCounts,
          date \in {<<>>} \cup {<< [day |-> d, tod |-> 0] >> : d \in 0..today} :
          LET log_entry == LogEntry(word_count, "page", date, [day |-> today, tod |-> 1])
          IN /\ jsonLog' = _append_to_json_log(jsonLog, log_entry)
             /\ csvLog' = _append_to_csv_log(csvLog, log_entry)
             /\ sessions' = Append(sessions, [word_count |-> word_count, date |-> date,
                                              at |-> today])
             /\ ret' = [op |-> "log", entry |-> log_entry]
    /\ UNCHANGED <<storeVars, appVars, today>>

GetWritingStatistics ==
    /\ ret' = [op |-> "stats", today |-> today,
               stats |-> get_writing_statistics(jsonLog, today)]
    /\ UNCHANGED <<storeVars, logVars, appVars>>

InitStats ==
    /\ now = 0
    /\ saves = EmptyDir
    /\ backups = EmptyDir
    /\ issued = 0
    /\ calls = 0
    /\ ticks = 0
    /\ ret = [op |-> "init"]
    /\ InitLogger
    /\ InitApp

NextStats == NextDay \/ LogWritingSession \/ GetWritingStatistics

StatsSpec == InitStats /\ [][NextStats]_vars

\* get_writing_history(days)
GetWritingHistory ==
    /\ \E days \in 0..MaxDay :
          ret' = [op |-> "history_days", days |-> days, today |-> today,
                  entries |-> get_writing_history(jsonLog, days, today)]
    /\ UNCHANGED <<storeVars, logVars, appVars>>

\* get_daily_summary(date)
GetDailySummary ==
    /\ \E date \in {<<>>} \cup {<<d>> : d \in 0..MaxDay} :
          ret' = [op |-> "summary",
                  date |-> IF date = <<>> THEN today ELSE date[1],
                  summary |-> get_daily_summary(jsonLog, date, today)]
    /\ UNCHANGED <<storeVars, logVars, appVars>>

\* log_writing_session, while the log is short enough to query exhaustively
LogSessionForHistory ==
    /\ Len(sessions) < MaxHistory
    /\ LogWritingSession

NextHistory == NextDay \/ LogSessionForHistory \/ GetWritingHistory \/ GetDailySummary

HistorySpec == InitStats /\ [][NextHistory]_vars

(***************************************************************************)
(* Actions of the configuration manager.                                   *)
(***************************************************************************)
\* os.environ[name] = value, or del os.environ[name]
SetEnv ==
    /\ \E name \in EnvNames :
       \E value \in EnvValues(name) :
          /\ value # environ[name]
          /\ environ' = [environ EXCEPT ![name] = value]
    /\ ret' = [op |-> "setenv"]
    /\ UNCHANGED <<storeVars, logVars, config_file, yaml_file, _config,
                   agentVars, writerVars, steps>>

LoadConfig ==
    /\ LET r == load_config(_config, config_file, yaml_file, environ)
       IN /\ _config' = r._config
          /\ ret' = [op |-> "load_config", config |-> r.result, raised |-> r.raised,
                     read |-> r.read]
    /\ UNCHANGED <<storeVars, logVars, environ, config_file, yaml_file,
                   agentVars, writerVars, steps>>

\* reload_config: self._config = None, then load_config
ReloadConfig ==
    /\ LET r == load_config(<<>>, config_file, yaml_file, environ)
       IN /\ _config' = r._config
          /\ ret' = [op |-> "reload_config", config |-> r.result, raised |-> r.raised,
                     read |-> r.read]
    /\ UNCHANGED <<storeVars, logVars, environ, config_file, yaml_file,
                   agentVars, writerVars, steps>>

\* ConfigManager(config_file) in any process environment: no file given, a
\* path with no file behind it, or a path to a YAML file.
InitConfigManager ==
    /\ environ \in [EnvNames -> UNION {EnvValues(name) : name \in EnvNames}]
    /\ \A name \in EnvNames : environ[name] \in EnvValues(name)
    /\ config_file \in {<<>>, <<"config.yaml">>}
    /\ yaml_file \in {<<>>} \cup {<<doc>> : doc \in YamlDocs}
    /\ config_file = <<>> => yaml_file = <<>>
    /\ _config = <<>>
    /\ now = 0
    /\ saves = EmptyDir
    /\ backups = EmptyDir
    /\ issued = 0
    /\ calls = 0
    /\ ticks = 0
    /\ ret = [op |-> "init"]
    /\ InitLogger
    /\ InitAgent
    /\ InitWriter
    /\ steps = 0

NextConfig == SetEnv \/ LoadConfig \/ ReloadConfig

ConfigSpec == InitConfigManager /\ [][NextConfig]_vars

(***************************************************************************)
(* Actions of the agent.                                                   *)
(***************************************************************************)
UpdateStoryState ==
    /\ steps < MaxSteps
    /\ \E new_event \in NewEvents :
          /\ story_state' = update_story_state(story_state, new_event)
          /\ ret' = [op |-> "update_story_state", new_event |-> new_event,
                     previous |-> story_state.recent_events]
    /\ steps' = steps + 1
    /\ UNCHANGED <<storeVars, logVars, configVars, context_word_count,
                   story_state_file, progress_file, writerVars>>

SaveStoryState ==
    /\ story_state_file' = <<story_state>>
    /\ ret' = [op |-> "save_story_state"]
    /\ UNCHANGED <<storeVars, logVars, configVars, story_state, context_word_count,
                   progress_file, writerVars, steps>>

\* write_daily_page: the page, the new event, story_state.json rewritten.
WriteDailyPage ==
    /\ steps < MaxSteps
    /\ LET r == write_daily_page(story_state, context_word_count, today)
       IN /\ story_state' = r.story_state
          /\ context_word_count' = r.context_word_count
          /\ story_state_file' = <<r.story_state>>
          /\ ret' = [op |-> "write_daily_page", result |-> r.result,
                     previous |-> story_state.recent_events]
    /\ steps' = steps + 1
    /\ UNCHANGED <<storeVars, logVars, configVars, progress_file, writerVars>>

\* The recent-event counts of the story states found in story_state.json.
InitialEventCounts == {0, 5, 7}

\* The agent after construction: the default story state, or the one on disk.
InitAgentSpec ==
    /\ \/ /\ story_state = DefaultStoryState
          /\ story_state_file = <<>>
       \/ \E n \in InitialEventCounts :
             /\ story_state = LoadedStoryState(n)
             /\ story_state_file = <<LoadedStoryState(n)>>
    /\ context_word_count = 0
    /\ progress_file = <<>>
    /\ steps = 0
    /\ now = 0
    /\ saves = EmptyDir
    /\ backups = EmptyDir
    /\ issued = 0
    /\ calls = 0
    /\ ticks = 0
    /\ ret = [op |-> "init"]
    /\ InitLogger
    /\ InitConfig
    /\ InitWriter

NextAgent == UpdateStoryState \/ SaveStoryState \/ WriteDailyPage

AgentSpec == InitAgentSpec /\ [][NextAgent]_vars

(***************************************************************************)
(* Actions of the daily writer.                                            *)
(***************************************************************************)
ScheduleDailyWriting ==
    /\ steps < MaxSteps
    /\ \E time_str \in Times :
          LET r == schedule_daily_writing(jobs, time_str)
          IN /\ writing_time' = r.writing_time
             /\ jobs' = r.jobs
             /\ is_scheduled' = r.is_scheduled
             /\ ret' = [op |-> "schedule_daily_writing", time_str |-> time_str,
                        jobs_before |-> jobs]
    /\ steps' = steps + 1
    /\ UNCHANGED <<storeVars, logVars, configVars, agentVars, on_write_complete,
                   on_write_error, output>>

\* run_scheduled_writer up to its loop: the default schedule when none is set.
RunScheduledWriter ==
    /\ steps < MaxSteps
    /\ IF ~is_scheduled
       THEN LET r == schedule_daily_writing(jobs, "09:00")
            IN /\ writing_time' = r.writing_time
               /\ jobs' = r.jobs
               /\ is_scheduled' = r.is_scheduled
       ELSE UNCHANGED <<writing_time, jobs, is_scheduled>>
    /\ ret' = [op |-> "run_scheduled_writer", was_scheduled |-> is_scheduled,
               jobs_before |-> jobs, writing_time_before |-> writing_time]
    /\ steps' = steps + 1
    /\ UNCHANGED <<storeVars, logVars, configVars, agentVars, on_write_complete,
                   on_write_error, output>>

SetCallbacks ==
    /\ \E on_complete \in {<<>>, <<"on_complete">>}, on_error \in {<<>>, <<"on_error">>} :
          /\ <<on_complete, on_error>> # <<on_write_complete, on_write_error>>
          /\ on_write_complete' = on_complete
          /\ on_write_error' = on_error
    /\ ret' = [op |-> "set_callbacks"]
    /\ UNCHANGED <<storeVars, logVars, configVars, agentVars, writing_time,
                   is_scheduled, jobs, output, steps>>

\* The failures of a session: none, or one step raising an exception.
Failures ==
    {<<>>} \cup
    {<< [type |-> type, at |-> SessionSteps[i]] >> :
        type \in ExceptionTypes, i \in 1..Len(SessionSteps)}

\* One writing session, entered through write_now or through the scheduled job.
Session(via) ==
    /\ steps < MaxSteps
    /\ \E fail \in Failures, callback_raises \in BOOLEAN :
          /\ fail # <<>> /\ fail[1].at = "on_write_complete" => on_write_complete # <<>>
          /\ callback_raises =>
                 fail # <<>> /\ fail[1].type = "Exception" /\ on_write_error # <<>>
          /\ \E r \in {_execute_daily_writing(
                          [story_state |-> story_state,
                           context_word_count |-> context_word_count,
                           story_state_file |-> story_state_file,
                           progress_file |-> progress_file,
                           output |-> output,
                           result |-> <<>>, complete_calls |-> <<>>,
                           performed |-> <<>>, raised |-> <<>>,
                           error_calls |-> <<>>, returned |-> <<>>],
                          today, fail, on_write_complete # <<>>,
                          on_write_error # <<>>, callback_raises)} :
                /\ story_state' = r.story_state
                /\ context_word_count' = r.context_word_count
                /\ story_state_file' = r.story_state_file
                /\ progress_file' = r.progress_file
                /\ output' = r.output
                /\ ret' = [op |-> "session", via |-> via, date |-> today,
                           fail |-> fail, callback_raises |-> callback_raises,
                           generated |-> r.result, performed |-> r.performed,
                           complete_calls |-> r.complete_calls,
                           error_calls |-> r.error_calls,
                           returned |-> r.returned, raised |-> r.raised,
                           output_before |-> output,
                           progress_before |-> progress_file]
    /\ steps' = steps + 1
    /\ UNCHANGED <<storeVars, logVars, configVars, writing_time, is_scheduled, jobs,
                   on_write_complete, on_write_error>>

WriteNow == Session("write_now")

\* schedule.run_pending() finding the daily job due.
RunPending ==
    /\ jobs # <<>>
    /\ Session("job")

\* DailyWriter(agent) on an agent with the default story state or with a bare
\* story state read from disk.
InitWriterSpec ==
    /\ \/ /\ story_state = DefaultStoryState
          /\ story_state_file = <<>>
       \/ /\ story_state = LoadedStoryState(0)
          /\ story_state_file = <<LoadedStoryState(0)>>
    /\ context_word_count = 0
    /\ progress_file = <<>>
    /\ steps = 0
    /\ now = 0
    /\ saves = EmptyDir
    /\ backups = EmptyDir
    /\ issued = 0
    /\ calls = 0
    /\ ticks = 0
    /\ ret = [op |-> "init"]
    /\ InitLogger
    /\ InitConfig
    /\ InitWriter

NextWriter ==
    ScheduleDailyWriting \/ RunScheduledWriter \/ SetCallbacks \/ WriteNow \/ RunPending

WriterSpec == InitWriterSpec /\ [][NextWriter]_vars

(***************************************************************************)
(* Claims about the draft store.                                           *)
(***************************************************************************)
Drafts(dir) == {n \in DOMAIN dir : n[1] = DraftPrefix}

\* C1: every save_story_draft call assigns a version strictly greater than the
\* version assigned by every earlier call, whatever file name is passed.
C1_VersionsStrictlyIncrease ==
    ret.op = "save" => ret.version > ret.earlier

FromIsoformat(str) ==
    ((str[1] - 48) * 10 + (str[2] - 48)) * TicksPerSec
        + (IF Len(str) > 2 THEN str[4] - 48 ELSE 0)

\* C5: get_save_history returns its entries newest first: each entry's save
\* timestamp is at or after the timestamp of the entry that follows it.
C5_HistoryNewestFirst ==
    ret.op = "history" =>
        \A i \in 1..(Len(ret.history) - 1) :
            FromIsoformat(ret.history[i].timestamp)
                >= FromIsoformat(ret.history[i + 1].timestamp)

C5_Witness ==
    /\ ret.op = "history"
    /\ Len(ret.history) >= 3
    /\ \E i, j \in 1..Len(ret.history) :
          /\ i < j
          /\ Len(ret.history[i].timestamp) > 2
          /\ Len(ret.history[j].timestamp) = 2
          /\ ret.history[i].timestamp # ret.history[j].timestamp
    /\ \E i \in 1..Len(ret.history) : ret.history[i].timestamp[1] # 48


\* C4: every create_backup call writes one timestamped backup file and returns its
\* path; afterwards the backup directory holds at most max_backups backup files,
\* the oldest having been removed first.
C4_BackupWrittenAndBounded ==
    ret.op = "backup" =>
        LET all == {n \in DOMAIN ret.written : n[1] = BackupPrefix}
        IN /\ ret.path[1] = BackupPrefix
           /\ DOMAIN ret.written = DOMAIN ret.before \cup {ret.path}
           /\ ret.path \in DOMAIN backups
           /\ backups[ret.path].content = ret.doc
           /\ Cardinality({n \in DOMAIN backups : n[1] = BackupPrefix}) <= max_backups
           /\ ret.deleted \subseteq all
           /\ \A d \in ret.deleted, k \in all \ ret.deleted :
                 ret.written[k].mtime >= ret.written[d].mtime
           /\ \A k \in DOMAIN ret.written \ ret.deleted : backups[k] = ret.written[k]

C4_Witness ==
    /\ ret.op = "backup"
    /\ ret.deleted # {}
    /\ ret.path \notin DOMAIN ret.before
    /\ Cardinality(DOMAIN backups) = max_backups

\* C9: load_latest_save returns None when there is no story_draft_*.json file;
\* otherwise the content of the draft with the greatest modification time, or None
\* when that file cannot be read, without falling back to an older draft.
C9_LoadLatest ==
    ret.op = "load" =>
        IF Drafts(saves) = {} THEN ret.data = <<>>
        ELSE \E f \in Drafts(saves) :
                /\ \A g \in Drafts(saves) : saves[g].mtime <= saves[f].mtime
                /\ ret.data = IF saves[f].ok THEN <<saves[f].content>> ELSE <<>>

C9_Witness ==
    /\ ret.op = "load"
    /\ ret.data = <<>>
    /\ \E f \in Drafts(saves) : saves[f].ok
    /\ \E f \in Drafts(saves) : ~saves[f].ok

\* C10: _get_next_version returns 1 when no existing save file carries a version,
\* otherwise one more than the highest version in any readable story_draft_*.json
\* file, whatever file name is being saved; unreadable files are ignored.
C10_NextVersion ==
    ret.op = "save" =>
        LET carried == {ret.before[n].content.save_metadata.version :
                           n \in {m \in Drafts(ret.before) : ret.before[m].ok}}
        IN ret.version = IF carried = {} THEN 1 ELSE Max(carried, 0) + 1

C10_Witness ==
    /\ ret.op = "save"
    /\ ret.version > 1
    /\ \E f \in Drafts(ret.before) :
          /\ ~ret.before[f].ok
          /\ ret.before[f].content.save_metadata.version >= ret.version
    /\ ret.path[1] # DraftPrefix

RunEndingAt(days, d) ==
    Max({k \in 0..(MaxDay + 1) : \A i \in 0..(k - 1) : (d - i) \in days}, 0)

LoggedDays == {DateOf(jsonLog[i].date) : i \in 1..Len(jsonLog)}

\* C7: current_streak equals the length of the run of consecutive calendar days
\* ending today in which every day has at least one logged session.
C7_CurrentStreakIsRunEndingToday ==
    ret.op = "stats" => ret.stats.current_streak = RunEndingAt(LoggedDays, ret.today)

\* C8: longest_streak equals the length of the longest run of consecutive calendar
\* days each holding at least one session: 0 for an empty history, at least 1
\* otherwise, several sessions on one day counting once.
C8_LongestStreakIsLongestRun ==
    ret.op = "stats" =>
        /\ ret.stats.longest_streak
              = Max({RunEndingAt(LoggedDays, d) : d \in LoggedDays}, 0)
        /\ (jsonLog = <<>>) <=> (ret.stats.longest_streak = 0)

C8_Witness ==
    /\ ret.op = "stats"
    /\ ret.stats.longest_streak = 2
    /\ Cardinality(LoggedDays) = 3


\* The logged entries dated on or after a calendar day, in log order.
EntriesSince(day) ==
    SelectSeq(jsonLog, LAMBDA e : e.date[1] >= day)

\* C11: get_writing_history(days) with days > 0 returns exactly the logged entries
\* dated on or after midnight of the day that lies days days before today, in log
\* order, whatever days and the current date are; with days = 0 it returns every
\* logged entry.
C11_HistoryWindow ==
    ret.op = "history_days" =>
        ret.entries = IF ret.days > 0 THEN EntriesSince(ret.today - ret.days)
                      ELSE jsonLog

\* The logged entries of one calendar day, in log order.
EntriesOfDay(day) ==
    SelectSeq(jsonLog, LAMBDA e : e.date[1] = day)

RECURSIVE SumOfWordCounts(_)
SumOfWordCounts(entries) ==
    IF entries = <<>> THEN 0
    ELSE entries[Len(entries)].word_count
             + SumOfWordCounts(SubSeq(entries, 1, Len(entries) - 1))

\* C19: get_daily_summary(date) returns None when no logged session falls on that
\* calendar date; otherwise sessions is the number of sessions logged on that
\* date, total_word_count the sum of their word counts, and entries lists exactly
\* those sessions in log order.
C19_DailySummary ==
    ret.op = "summary" =>
        LET logged == EntriesOfDay(ret.date)
        IN IF logged = <<>> THEN ret.summary = <<>>
           ELSE /\ ret.summary # <<>>
                /\ ret.summary[1].sessions = Len(logged)
                /\ ret.summary[1].total_word_count = SumOfWordCounts(logged)
                /\ ret.summary[1].entries = logged

C19_Witness ==
    /\ ret.op = "summary"
    /\ ret.summary # <<>>
    /\ ret.summary[1].sessions = 1
    /\ ret.summary[1].total_word_count = 2
    /\ Len(jsonLog) = 2
    /\ ret.date # today

\* C20: immediately after save_story_draft(d, filename) returns, whatever the
\* file name (a caller-supplied one included), load_latest_save returns the
\* document just written: the story content plus the save_metadata record with
\* the timestamp, the version just assigned and the word count.
C20_LoadReturnsJustSaved ==
    ret.op = "save" =>
        \A rev \in BOOLEAN : load_latest_save(saves, rev) = <<ret.doc>>

(***************************************************************************)
(* Claims about the configuration manager.                                 *)
(***************************************************************************)
Loaded == ret.op \in {"load_config", "reload_config"} /\ ret.raised = ""

\* What the YAML source supplies for a setting: <<>> when no file was given, the
\* file does not exist or the file has no such key.
YamlSupplies(setting) ==
    IF config_file # <<>> /\ yaml_file # <<>> THEN yaml_file[1][setting] ELSE <<>>

\* The value an environment string stands for.
EnvMeaning(setting, str) ==
    IF setting = "debug" THEN str \in {"true", "TRUE", "1", "yes"} ELSE str

EnvNameOf(setting) ==
    IF setting = "title" THEN NOVEL_TITLE
    ELSE IF setting = "environment" THEN ENVIRONMENT ELSE DEBUG

DefaultOf(setting) ==
    IF setting = "title" THEN "Untitled Novel"
    ELSE IF setting = "environment" THEN "development" ELSE FALSE

Settings == {"title", "environment", "debug"}

\* C12 (as stated): the loaded value of every setting is the environment
\* variable's if the variable is set, otherwise the YAML file's, otherwise the
\* default.
C12_Precedence ==
    Loaded =>
        \A setting \in Settings :
            LET env == environ[EnvNameOf(setting)]
                yaml == YamlSupplies(setting)
            IN ret.config[1][setting] =
                   IF env # <<>> THEN EnvMeaning(setting, env[1])
                   ELSE IF yaml # <<>> THEN yaml[1]
                   ELSE DefaultOf(setting)

\* C12 (amended): when load_config reads the sources (nothing is cached) and
\* validation succeeds, every setting's value is the environment variable's if
\* the variable is set to a non-empty string, otherwise the YAML file's,
\* otherwise the default.
C12_PrecedenceOnRead ==
    (Loaded /\ ret.read) =>
        \A setting \in Settings :
            LET env == environ[EnvNameOf(setting)]
                yaml == YamlSupplies(setting)
            IN ret.config[1][setting] =
                   IF env # <<>> /\ env[1] # "" THEN EnvMeaning(setting, env[1])
                   ELSE IF yaml # <<>> THEN yaml[1]
                   ELSE DefaultOf(setting)

C12_Witness ==
    /\ Loaded /\ ret.read
    /\ environ[NOVEL_TITLE] = <<"Env Novel">> /\ YamlSupplies("title") # <<>>
    /\ ret.config[1].title = "Env Novel"
    /\ environ[ENVIRONMENT] = <<>> /\ ret.config[1].environment = "testing"
    /\ environ[DEBUG] = <<"no">> /\ YamlSupplies("debug") = <<TRUE>>
    /\ ret.config[1].debug = FALSE

\* C13: load_config raises FileNotFoundError when a config file path was given
\* and no file exists there.
C13_MissingFileRaises ==
    (ret.op \in {"load_config", "reload_config"} /\ ret.read
        /\ config_file # <<>> /\ yaml_file = <<>>)
    => ret.raised = "FileNotFoundError"

(***************************************************************************)
(* Claims about the agent.                                                 *)
(***************************************************************************)
\* The last n elements of a list (the whole list when it is shorter).
Suffix(list, n) ==
    [i \in 1..(IF Len(list) < n THEN Len(list) ELSE n) |->
        list[i + (IF Len(list) < n THEN 0 ELSE Len(list) - n)]]

\* C15 (as stated): after update_story_state(new_event) the recent events are at
\* most 5, end with new_event, and are the last (up to) 5 elements of the
\* previous list followed by new_event.
C15_RecentEvents ==
    ret.op = "update_story_state" =>
        /\ Len(story_state.recent_events) <= 5
        /\ story_state.recent_events[Len(story_state.recent_events)] = ret.new_event
        /\ story_state.recent_events = Suffix(ret.previous, 5) \o <<ret.new_event>>

\* C15 (amended): after update_story_state(new_event) the recent events are at
\* most 5, end with new_event, and are the last (up to) 4 elements of the
\* previous list followed by new_event, in their order.
C15_RecentEventsKeepFour ==
    ret.op = "update_story_state" =>
        /\ Len(story_state.recent_events) <= 5
        /\ story_state.recent_events[Len(story_state.recent_events)] = ret.new_event
        /\ story_state.recent_events = Suffix(ret.previous, 4) \o <<ret.new_event>>

C15_Witness ==
    /\ ret.op = "update_story_state"
    /\ Len(ret.previous) > 5
    /\ Len(story_state.recent_events) = 5
    /\ story_state.recent_events[1] = ret.previous[Len(ret.previous) - 3]

(***************************************************************************)
(* Claims about the daily writer.                                          *)
(***************************************************************************)
\* The first byte of a character: not a continuation byte 10xxxxxx
IsLead(byte) == byte < 128 \/ byte >= 192

\* bytes.decode('utf-8') of the bytes of one character
Utf8OneChar(bytes) ==
    IF Len(bytes) = 1 THEN bytes[1]
    ELSE IF Len(bytes) = 2 THEN (bytes[1] - 192) * 64 + (bytes[2] - 128)
    ELSE (bytes[1] - 224) * 4096 + (bytes[2] - 128) * 64 + (bytes[3] - 128)

\* f.read() with encoding='utf-8': the text of a file's bytes, decoded in two
\* halves split at a character boundary next to the middle
RECURSIVE Utf8Decode(_)
Utf8Decode(bytes) ==
    IF bytes = <<>> THEN <<>>
    ELSE LET mid == (Len(bytes) \div 2) + 1
             cuts == {i \in (mid - 2)..(mid + 2) :
                         i >= 2 /\ i <= Len(bytes) /\ IsLead(bytes[i])}
         IN IF cuts = {} THEN <<Utf8OneChar(bytes)>>
            ELSE LET cut == CHOOSE i \in cuts : TRUE
                 IN Utf8Decode(SubSeq(bytes, 1, cut - 1))
                        \o Utf8Decode(SubSeq(bytes, cut, Len(bytes)))

Performed(step) == \E i \in 1..Len(ret.performed) : ret.performed[i] = step

StepRaised == ret.op = "session" /\ ret.fail # <<>>

\* C16 (as stated): if any step of a writing session raises, on_write_error,
\* when set, is called with that exception, the exception is re-raised to the
\* caller and no result is returned.
C16_ErrorReportedAndReraised ==
    StepRaised =>
        /\ on_write_error # <<>> => ret.error_calls = ret.fail
        /\ ret.raised = ret.fail
        /\ ret.returned = <<>>

\* C16 (amended): if any step of a writing session raises an exception of class
\* Exception, on_write_error, when set, is called once with that exception and
\* is not called otherwise; unless the callback itself raises, that exception is
\* re-raised to the caller; in every case an exception reaches the caller and no
\* result is returned.
C16_ExceptionReportedAndRaised ==
    (StepRaised /\ ret.fail[1].type = "Exception") =>
        /\ ret.error_calls = IF on_write_error # <<>> THEN ret.fail ELSE <<>>
        /\ ~ret.callback_raises => ret.raised = ret.fail
        /\ ret.raised # <<>>
        /\ ret.returned = <<>>

C16_Witness ==
    /\ StepRaised
    /\ ret.fail[1] = [type |-> "Exception", at |-> "save_progress"]
    /\ on_write_error # <<>>
    /\ ret.error_calls = ret.fail
    /\ ret.raised = ret.fail
    /\ ret.via = "job"

\* The files of the session's day hold the page generated in the session.
OutputWritten ==
    /\ ret.generated # <<>>
    /\ <<ret.date, "page">> \in DOMAIN output
    /\ <<ret.date, "metadata">> \in DOMAIN output
    /\ Utf8Decode(output[<<ret.date, "page">>].bytes) = ret.generated[1].content
    /\ output[<<ret.date, "metadata">>].json = ret.generated[1]

\* C17: a writing session performs write_daily_page, the page file, the metadata
\* file, save_progress and on_write_complete (when set) in that order; a step
\* that fails stops the session before every later step, so progress is saved
\* and the completion callback called only after both output files of the page
\* were written.
C17_StepsInOrder ==
    ret.op = "session" =>
        LET order == <<"write_daily_page", "page_file", "metadata_file",
                       "save_progress">>
                     \o (IF on_write_complete # <<>> THEN <<"on_write_complete">>
                         ELSE <<>>)
            n == Len(ret.performed)
        IN /\ n <= Len(order)
           /\ \A i \in 1..n : ret.performed[i] = order[i]
           /\ IF ret.fail = <<>> THEN n = Len(order)
              ELSE n < Len(order) /\ order[n + 1] = ret.fail[1].at
           /\ progress_file # ret.progress_before => OutputWritten
           /\ ret.complete_calls # <<>> =>
                 OutputWritten /\ progress_file # ret.progress_before
           /\ output # ret.output_before => Performed("write_daily_page")

C17_Witness ==
    /\ ret.op = "session"
    /\ ret.fail # <<>>
    /\ ret.fail[1].at = "metadata_file"
    /\ ret.performed = <<"write_daily_page", "page_file">>
    /\ on_write_complete # <<>>
    /\ ret.complete_calls = <<>>
    /\ progress_file = ret.progress_before
    /\ output # ret.output_before

\* C18: after any sequence of schedule_daily_writing calls exactly one daily job
\* is scheduled, at the time of the most recent call, is_scheduled is true and
\* writing_time is that time; run_scheduled_writer installs the 09:00 schedule
\* only when nothing has been scheduled.
C18_OneJobAtLatestTime ==
    /\ ret.op = "schedule_daily_writing" =>
          /\ jobs = <<ret.time_str>>
          /\ is_scheduled
          /\ writing_time = ret.time_str
    /\ ret.op = "run_scheduled_writer" =>
          IF ret.was_scheduled
          THEN jobs = ret.jobs_before /\ writing_time = ret.writing_time_before
          ELSE jobs = <<"09:00">> /\ writing_time = "09:00" /\ is_scheduled
    /\ is_scheduled => Len(jobs) = 1 /\ jobs[1] = writing_time
    /\ ~is_scheduled => jobs = <<>>

C18_Witness ==
    /\ ret.op = "schedule_daily_writing"
    /\ ret.jobs_before # <<>>
    /\ ret.jobs_before[1] # ret.time_str
    /\ jobs = <<ret.time_str>>

====
